---------------------------- MODULE Spec2Model ----------------------------
(***************************************************************************)
(* Model of src/app.py: the spatial extraction engine (find_anchor_y,      *)
(* surgical_crop, extract_full_data_spatial), the parsing helpers          *)
(* (parse_checkbox_products, find_smart_date), the compliance engine       *)
(* (validate_compliance) and the part of the Streamlit script that runs    *)
(* them on an uploaded file.                                               *)
(*                                                                         *)
(* A Python str is a sequence of one-character strings, so that lower(),   *)
(* strip(), split(), startswith(), replace(), `in` and the regular         *)
(* expressions are computed character by character.  None is the empty     *)
(* tuple <<>> and a present value v is <<v>>.                              *)
(***************************************************************************)
EXTENDS Integers, Sequences, FiniteSets, TLC

VARIABLES
    pc,             \* position of the running script / of the function call
    arg,            \* argument record of the function under call
    ret,            \* its return value
    uploaded_file,  \* the st.file_uploader value: the document and what the
                    \* recognition engine answers on it
    now,            \* the clock datetime.now() reads
    anchors,        \* y_box_3, y_box_5, y_box_6 of the last extraction
    crops,          \* the boxes surgical_crop handed to img.crop, per zone
    data,           \* return value of extract_full_data_spatial
    report,         \* (report, products) of validate_compliance and the verdict
    last            \* outcome of the previous run on the same upload

vars == <<pc, arg, ret, uploaded_file, now, anchors, crops, data, report, last>>

None == <<>>
Some(v) == <<v>>

-----------------------------------------------------------------------------
(* Python str operations *)

UpperCase == <<"A","B","C","D","E","F","G","H","I","J","K","L","M","N","O","P","Q","R","S","T","U","V","W","X","Y","Z">>
LowerCase == <<"a","b","c","d","e","f","g","h","i","j","k","l","m","n","o","p","q","r","s","t","u","v","w","x","y","z">>
Digit == {"0", "1", "2", "3", "4", "5", "6", "7", "8", "9"}
WhiteSpace == {" ", "\t", "\n", "\r", "\f"}

IsUpper(c) == \E i \in 1..26 : UpperCase[i] = c

lower_char(c) ==
    IF IsUpper(c) THEN LowerCase[CHOOSE i \in 1..26 : UpperCase[i] = c] ELSE c

lower(s) == [i \in 1..Len(s) |-> lower_char(s[i])]

\* s[i:].startswith(p), i counted from 1
MatchAt(s, p, i) ==
    /\ i + Len(p) - 1 <= Len(s)
    /\ \A k \in 1..Len(p) : s[i + k - 1] = p[k]

startswith(s, p) == MatchAt(s, p, 1)

\* p in s
contains(s, p) == \E i \in 1..(Len(s) + 1) : MatchAt(s, p, i)

strip(s) ==
    LET keep == {i \in 1..Len(s) : s[i] \notin WhiteSpace}
    IN  IF keep = {} THEN <<>>
        ELSE SubSeq(s, CHOOSE i \in keep : \A j \in keep : i <= j,
                       CHOOSE i \in keep : \A j \in keep : i >= j)

RECURSIVE split(_, _)
\* s.split(sep) for a one-character sep
split(s, sep) ==
    LET at == {i \in 1..Len(s) : s[i] = sep}
    IN  IF at = {} THEN <<s>>
        ELSE LET i == CHOOSE i \in at : \A j \in at : i <= j
             IN  <<SubSeq(s, 1, i - 1)>> \o split(SubSeq(s, i + 1, Len(s)), sep)

RECURSIVE replace(_, _)
\* s.replace(m, "") for a non-empty m
replace(s, m) ==
    IF s = <<>> THEN <<>>
    ELSE IF startswith(s, m) THEN replace(SubSeq(s, Len(m) + 1, Len(s)), m)
    ELSE <<Head(s)>> \o replace(Tail(s), m)

RECURSIVE Join(_)
\* the lines, each ended by a newline
Join(lines) ==
    IF lines = <<>> THEN <<>> ELSE Head(lines) \o <<"\n">> \o Join(Tail(lines))

\* all sequences over S of length at most n
SeqUpTo(S, n) == UNION {[1..k -> S] : k \in 0..n}

-----------------------------------------------------------------------------
(* find_anchor_y *)

CONF_THRESHOLD == 40

RECURSIVE anchor_scan_any_conf(_, _, _)
anchor_scan_any_conf(ocr_data, keywords, i) ==
    IF i > Len(ocr_data.text) THEN None
    ELSE IF \E kw \in keywords : contains(lower(ocr_data.text[i]), kw)
         THEN Some(ocr_data.top[i])
         ELSE anchor_scan_any_conf(ocr_data, keywords, i + 1)

RECURSIVE anchor_scan(_, _, _)
\* the loop of find_anchor_y from box i on
anchor_scan(ocr_data, keywords, i) ==
    IF i > Len(ocr_data.text) THEN None
    ELSE IF /\ \E kw \in keywords : contains(lower(ocr_data.text[i]), kw)
            /\ ocr_data.conf[i] > CONF_THRESHOLD
         THEN Some(ocr_data.top[i])
         ELSE anchor_scan(ocr_data, keywords, i + 1)

find_anchor_y(ocr_data, keywords) ==
    IF "text" \notin DOMAIN ocr_data THEN None
    ELSE anchor_scan(ocr_data, keywords, 1)

KW_BOX_3 == {<<"1",".","3">>, <<"3",".">>, <<"a","d","d","r","e","s","s">>, <<"o","p","e","r","a","t","o","r">>}
KW_BOX_5 == {<<"1",".","5">>, <<"5",".">>, <<"a","c","t","i","v","i","t","y">>, <<"a","c","t","i","v","i","t","i","e","s">>}
KW_BOX_6 == {<<"1",".","6">>, <<"6",".">>, <<"c","a","t","e","g","o","r","y">>}

\* image_to_data(..., output_type=Output.DICT): parallel lists
OcrDict(lines) ==
    [text |-> [i \in 1..Len(lines) |-> lines[i].text],
     conf |-> [i \in 1..Len(lines) |-> lines[i].conf],
     top  |-> [i \in 1..Len(lines) |-> lines[i].top]]

-----------------------------------------------------------------------------
(* Inputs of the find_anchor_y calls *)

MaxBoxes == 2

AnchorTexts == {<<"1",".","3"," ","O","p","e","r","a","t","o","r">>, <<"A","d","d","r","e","s","s">>, <<"T","o","t","a","l">>}
AnchorConfs == {CONF_THRESHOLD - 1, CONF_THRESHOLD, CONF_THRESHOLD + 1}
AnchorTops == {0, 120}

AnchorLines == [text : AnchorTexts, conf : AnchorConfs, top : AnchorTops]

AnchorArgs ==
    {[fn |-> "find_anchor_y", ocr_data |-> OcrDict(ls), keywords |-> kws] :
        ls \in SeqUpTo(AnchorLines, MaxBoxes), kws \in {KW_BOX_3, KW_BOX_6}}
    \cup {[fn |-> "find_anchor_y", ocr_data |-> [level |-> <<>>], keywords |-> KW_BOX_3]}

\* the pipeline variables while a single function is exercised
PipelineIdle ==
    /\ uploaded_file = None
    /\ now = None
    /\ anchors = None
    /\ crops = None
    /\ data = None
    /\ report = None
    /\ last = None

pipeline == <<uploaded_file, now, anchors, crops, data, report, last>>

InitAnchor ==
    /\ pc = "call"
    /\ arg \in AnchorArgs
    /\ ret = None
    /\ PipelineIdle

CallFindAnchorY ==
    /\ pc = "call"
    /\ arg.fn = "find_anchor_y"
    /\ ret' = find_anchor_y(arg.ocr_data, arg.keywords)
    /\ pc' = "return"
    /\ UNCHANGED <<arg, pipeline>>

NextAnchor == CallFindAnchorY

SpecAnchor == InitAnchor /\ [][NextAnchor]_vars

\* box i of the OCR dictionary d matches a keyword with confidence related to
\* the threshold by strict (>) or not (>=)
Matches(d, kws, i) == \E kw \in kws : contains(lower(d.text[i]), kw)
QualifiesGT(d, kws, i) == Matches(d, kws, i) /\ d.conf[i] > CONF_THRESHOLD
QualifiesGE(d, kws, i) == Matches(d, kws, i) /\ d.conf[i] >= CONF_THRESHOLD
Boxes(d) == IF "text" \in DOMAIN d THEN 1..Len(d.text) ELSE {}

\* C4 (as stated): find_anchor_y returns the top of the first line, in document
\* order, whose lowercased text contains a keyword and whose confidence is >= 40,
\* and None only when no such line exists.
C4_FirstQualifyingGE ==
    (pc = "return" /\ arg.fn = "find_anchor_y") =>
        LET d == arg.ocr_data
            q == {i \in Boxes(d) : QualifiesGE(d, arg.keywords, i)}
        IN  /\ (ret = None) <=> (q = {})
            /\ ret # None =>
                 ret = Some(d.top[CHOOSE i \in q : \A j \in q : i <= j])

\* C4 (amended): the same with confidence strictly greater than 40.
C4_FirstQualifyingGT ==
    (pc = "return" /\ arg.fn = "find_anchor_y") =>
        LET d == arg.ocr_data
            q == {i \in Boxes(d) : QualifiesGT(d, arg.keywords, i)}
        IN  /\ (ret = None) <=> (q = {})
            /\ ret # None =>
                 ret = Some(d.top[CHOOSE i \in q : \A j \in q : i <= j])

\* a keyword line at exactly the threshold is passed over for a later
\* qualifying line at another position
C4_Witness ==
    /\ pc = "return" /\ arg.fn = "find_anchor_y"
    /\ Boxes(arg.ocr_data) = 1..2
    /\ Matches(arg.ocr_data, arg.keywords, 1)
    /\ arg.ocr_data.conf[1] = CONF_THRESHOLD
    /\ QualifiesGT(arg.ocr_data, arg.keywords, 2)
    /\ arg.ocr_data.top[1] # arg.ocr_data.top[2]
    /\ ret = Some(arg.ocr_data.top[2])

-----------------------------------------------------------------------------
(* parse_checkbox_products *)

\* the fifth mark is the one character U+2611 (ballot box with check)
checked_marks == <<<<"X">>, <<"x">>, <<"V">>, <<"8">>, <<"U+2611">>, <<"[","x","]">>>>
categories == {<<"a",")">>, <<"b",")">>, <<"c",")">>, <<"d",")">>, <<"e",")">>, <<"f",")">>, <<"g",")">>, <<"h",")">>, <<"-">>}

RECURSIVE remove_marks(_, _)
\* for m in checked_marks: clean = clean.replace(m, ""), from mark k on
remove_marks(clean, k) ==
    IF k > Len(checked_marks) THEN clean
    ELSE remove_marks(replace(clean, checked_marks[k]), k + 1)

is_checked(l) ==
    \/ \E k \in 1..Len(checked_marks) : startswith(l, checked_marks[k])
    \/ /\ contains(lower(l), <<"o","r","g","a","n","i","c">>)
       /\ ~ startswith(l, <<"O">>)
       /\ ~ startswith(l, <<"0">>)

parse_line_no_skip(active, line) ==
    LET l == strip(line)
    IN  IF \E c \in categories : startswith(lower(l), c) THEN Append(active, l)
        ELSE IF is_checked(l) THEN Append(active, strip(remove_marks(l, 1)))
        ELSE active

\* one iteration of the loop over the lines
parse_line(active, line) ==
    LET l == strip(line)
        l_low == lower(l)
    IN  IF contains(l_low, <<"p","a","g","e">>) \/ contains(l_low, <<"r","e","g","u","l","a","t","i","o","n">>) THEN active
        ELSE IF \E c \in categories : startswith(l_low, c) THEN Append(active, l)
        ELSE IF is_checked(l) THEN Append(active, strip(remove_marks(l, 1)))
        ELSE active

RECURSIVE parse_lines(_, _)
parse_lines(active, lines) ==
    IF lines = <<>> THEN active
    ELSE parse_lines(parse_line(active, Head(lines)), Tail(lines))

parse_checkbox_products(text) == parse_lines(<<>>, split(text, "\n"))

-----------------------------------------------------------------------------
(* Inputs of the parse_checkbox_products calls *)

MaxProductLines == 3

ProductLines ==
    {<<"a",")"," ","F","r","u","i","t">>, <<"X"," ","O","r","g","a","n","i","c"," ","a","p","p","l","e","s">>, <<"O"," ","O","r","g","a","n","i","c"," ","p","e","a","r","s">>, <<"x"," ","M","i","x","e","d"," ","V","e","g","e","t","a","b","l","e","s">>,
     <<"-"," ","P","a","g","e"," ","2">>, <<"B",")"," ","W","I","N","E">>, <<" ","o","r","g","a","n","i","c"," ","h","o","n","e","y"," ">>, <<"[","x","]"," ","B","e","e","f">>, <<"N","o","t","e","s">>,
     <<"X"," ","R","e","g","u","l","a","t","i","o","n"," ","2","0","1","8","/","8","4","8">>, <<"0"," ","o","r","g","a","n","i","c"," ","o","a","t","s">>, <<"U+2611">> \o <<" ","M","i","l","k">>}

ExampleProducts == Join(<<<<"a",")"," ","F","r","u","i","t">>, <<"X"," ","O","r","g","a","n","i","c"," ","a","p","p","l","e","s">>, <<"O"," ","O","r","g","a","n","i","c"," ","p","e","a","r","s">>>>)

ProductArgs ==
    {[fn |-> "parse_checkbox_products", text |-> Join(ls)] :
        ls \in SeqUpTo(ProductLines, MaxProductLines)}

InitProducts ==
    /\ pc = "call"
    /\ arg \in ProductArgs
    /\ ret = None
    /\ PipelineIdle

CallParseCheckboxProducts ==
    /\ pc = "call"
    /\ arg.fn = "parse_checkbox_products"
    /\ ret' = parse_checkbox_products(arg.text)
    /\ pc' = "return"
    /\ UNCHANGED <<arg, pipeline>>

NextProducts == CallParseCheckboxProducts

SpecProducts == InitProducts /\ [][NextProducts]_vars

\* The ordered rules of the product parser, first match wins, on the trimmed
\* line l: 1 skip, 2 header, 3 active by glyph, 4 active by "organic", else
\* discarded.
StartsWithGlyph(l) == \E k \in 1..Len(checked_marks) : startswith(l, checked_marks[k])
RuleOf(line) ==
    LET l == strip(line)
    IN  IF contains(lower(l), <<"p","a","g","e">>) \/ contains(lower(l), <<"r","e","g","u","l","a","t","i","o","n">>) THEN "skip"
        ELSE IF \E c \in categories : startswith(lower(l), c) THEN "header"
        ELSE IF StartsWithGlyph(l) THEN "glyph"
        ELSE IF contains(lower(l), <<"o","r","g","a","n","i","c">>) /\ l[1] \notin {"O", "0"} THEN "organic"
        ELSE "discard"

Retained(lines) == {i \in 1..Len(lines) : RuleOf(lines[i]) \in {"header", "glyph", "organic"}}
Rank(R, i) == Cardinality({j \in R : j <= i})

\* e is s with some characters deleted
RECURSIVE IsSubsequence(_, _)
IsSubsequence(e, s) ==
    IF e = <<>> THEN TRUE
    ELSE IF s = <<>> THEN FALSE
    ELSE IF Head(e) = Head(s) THEN IsSubsequence(Tail(e), Tail(s))
    ELSE IsSubsequence(e, Tail(s))

\* C7: the output of parse_checkbox_products has one entry per line that the
\* ordered rules retain (header or active), in document order; a header's entry
\* is the trimmed line and an active line's entry is taken from that line; the
\* example text yields the Fruit header and "Organic apples" and nothing for
\* "Organic pears".
C7_OrderedRules ==
    (pc = "return" /\ arg.fn = "parse_checkbox_products") =>
        LET lines == split(arg.text, "\n")
            R == Retained(lines)
        IN  /\ Len(ret) = Cardinality(R)
            /\ \A i \in R :
                 /\ RuleOf(lines[i]) = "header" => ret[Rank(R, i)] = strip(lines[i])
                 /\ RuleOf(lines[i]) # "header" => IsSubsequence(ret[Rank(R, i)], lines[i])
            /\ arg.text = ExampleProducts => ret = <<<<"a",")"," ","F","r","u","i","t">>, <<"O","r","g","a","n","i","c"," ","a","p","p","l","e","s">>>>

C7_Witness ==
    /\ pc = "return" /\ arg.fn = "parse_checkbox_products"
    /\ arg.text = ExampleProducts
    /\ ret = <<<<"a",")"," ","F","r","u","i","t">>, <<"O","r","g","a","n","i","c"," ","a","p","p","l","e","s">>>>

\* the trimmed line without the checked glyph it starts with
WithoutLeadingGlyph(l) ==
    LET k == CHOOSE k \in 1..Len(checked_marks) : startswith(l, checked_marks[k])
    IN  strip(SubSeq(l, Len(checked_marks[k]) + 1, Len(l)))

\* C10: the entry of a line that is active because it starts with a checked
\* glyph is the trimmed line with that leading glyph stripped and the rest of
\* the text unchanged.
C10_OnlyLeadingGlyphStripped ==
    (pc = "return" /\ arg.fn = "parse_checkbox_products") =>
        LET lines == split(arg.text, "\n")
            R == Retained(lines)
        IN  \A i \in R :
                RuleOf(lines[i]) = "glyph" =>
                    ret[Rank(R, i)] = WithoutLeadingGlyph(strip(lines[i]))

-----------------------------------------------------------------------------
(* find_smart_date *)

DateSeparator == {".", "/", "-"}

DigitValue(c) == CHOOSE v \in 0..9 : <<"0", "1", "2", "3", "4", "5", "6", "7", "8", "9">>[v + 1] = c

RECURSIVE int(_)
\* int(s) of a string of digits
int(s) == IF s = <<>> THEN 0 ELSE 10 * int(SubSeq(s, 1, Len(s) - 1)) + DigitValue(s[Len(s)])

IsDigitAt(s, i) == i <= Len(s) /\ s[i] \in Digit
IsSepAt(s, i) == i <= Len(s) /\ s[i] \in DateSeparator

\* width matched by \d{1,2} at i when [./-] has to follow, 0 for no match
OneOrTwoDigits(s, i) ==
    IF IsDigitAt(s, i) /\ IsDigitAt(s, i + 1) /\ IsSepAt(s, i + 2) THEN 2
    ELSE IF IsDigitAt(s, i) /\ IsSepAt(s, i + 1) THEN 1
    ELSE 0

\* width matched by the greedy \d{2,4} at i, 0 for no match
TwoToFourDigits(s, i) ==
    LET w == CHOOSE w \in 0..4 :
                 /\ \A k \in 0..(w - 1) : IsDigitAt(s, i + k)
                 /\ (w = 4 \/ ~ IsDigitAt(s, i + w))
    IN  IF w >= 2 THEN w ELSE 0

\* the match of date_pattern that starts at i: the three digit groups, the
\* separators and the index after the match; None for no match
date_pattern_at(s, i) ==
    LET a == OneOrTwoDigits(s, i)
        j == i + a + 1
        b == OneOrTwoDigits(s, j)
        k == j + b + 1
        c == TwoToFourDigits(s, k)
    IN  IF a = 0 \/ b = 0 \/ c = 0 THEN None
        ELSE Some([first  |-> SubSeq(s, i, i + a - 1),
                   second |-> SubSeq(s, j, j + b - 1),
                   third  |-> SubSeq(s, k, k + c - 1),
                   seps   |-> <<s[i + a], s[j + b]>>,
                   next   |-> k + c])

RECURSIVE findall_dates(_, _)
\* re.findall(date_pattern, text) from index i on: leftmost matches, not overlapping
findall_dates(s, i) ==
    IF i > Len(s) THEN <<>>
    ELSE LET m == date_pattern_at(s, i)
         IN  IF m = None THEN findall_dates(s, i + 1)
             ELSE <<m[1]>> \o findall_dates(s, m[1].next)

\* the year in which dateutil's default parser was created
PARSER_YEAR == 2026

\* parserinfo.convertyear
convertyear(year, century_specified) ==
    IF year < 100 /\ ~ century_specified
    THEN LET y == year + (PARSER_YEAR \div 100) * 100
         IN  IF y >= PARSER_YEAR + 50 THEN y - 100
             ELSE IF y < PARSER_YEAR - 50 THEN y + 100
             ELSE y
    ELSE year

IsLeap(y) == (y % 4 = 0 /\ y % 100 # 0) \/ y % 400 = 0
DaysInMonth(y, m) ==
    IF m = 2 THEN (IF IsLeap(y) THEN 29 ELSE 28)
    ELSE IF m \in {4, 6, 9, 11} THEN 30 ELSE 31

\* datetime(year, month, day), None where it raises ValueError
datetime(year, month, day) ==
    IF /\ year \in 1..9999
       /\ month \in 1..12
       /\ day \in 1..DaysInMonth(year, month)
    THEN Some([year |-> year, month |-> month, day |-> day])
    ELSE None

\* parser.parse(d, dayfirst=True) of a match d of date_pattern whose two
\* separators are the same character: the assignment of the three numbers to
\* year, month and day (dateutil's _ymd.resolve_ymd), then the datetime.
\* None where parse raises.
parse(d) ==
    LET v1 == int(d.first)
        v2 == int(d.second)
        v3 == int(d.third)
        century_specified == Len(d.third) > 2
        ymd == IF v1 > 31
                 THEN IF v3 <= 12 THEN [y |-> v1, d |-> v2, m |-> v3]
                                  ELSE [y |-> v1, m |-> v2, d |-> v3]
               ELSE IF v1 > 12 \/ v2 <= 12
                 THEN [d |-> v1, m |-> v2, y |-> v3]
               ELSE [m |-> v1, d |-> v2, y |-> v3]
    IN  IF d.seps[1] # d.seps[2] THEN None
        ELSE datetime(convertyear(ymd.y, century_specified), ymd.m, ymd.d)

\* order of two datetimes
DateKey(dt) == dt.year * 10000 + dt.month * 100 + dt.day

year_in_window_closed(dt) == 2020 <= dt.year /\ dt.year < 2035

\* the test 2020 < dt.year < 2035
year_in_window(dt) == 2020 < dt.year /\ dt.year < 2035

RECURSIVE date_candidates(_)
\* the loop over the matches: the parsed dates that are appended
date_candidates(matches) ==
    IF matches = <<>> THEN <<>>
    ELSE LET dt == parse(Head(matches))
         IN  (IF dt # None /\ year_in_window(dt[1]) THEN dt ELSE <<>>)
             \o date_candidates(Tail(matches))

\* max(candidates)
max_date(candidates) ==
    candidates[CHOOSE i \in 1..Len(candidates) :
                   \A j \in 1..Len(candidates) : DateKey(candidates[j]) <= DateKey(candidates[i])]

find_smart_date(text) ==
    LET candidates == date_candidates(findall_dates(text, 1))
    IN  IF candidates # <<>> THEN Some(max_date(candidates)) ELSE None

-----------------------------------------------------------------------------
(* Inputs of the find_smart_date calls *)

MaxDateWords == 3

DateWords ==
    {<<"3","1",".","1","2",".","2","0","2","5">>, <<"0","1","/","0","1","/","2","0","2","0">>, <<"1","-","1","-","2","0","3","5">>, <<"1","5",".","0","6",".","3","4">>, <<"1","2",".","3","1",".","2","0","2","1">>,
     <<"3","1",".","0","2",".","2","0","2","4">>, <<"0","1",".","0","1",".","2","0","2","1">>, <<"2","0","3","0","-","0","5","-","0","6">>, <<"u","n","t","i","l">>, <<"1","0",".","1","0",".","2","0","3","0","1">>}

RECURSIVE Words(_)
\* the words, each followed by a blank
Words(ws) == IF ws = <<>> THEN <<>> ELSE Head(ws) \o <<" ">> \o Words(Tail(ws))

DateArgs ==
    {[fn |-> "find_smart_date", text |-> Words(ws)] : ws \in SeqUpTo(DateWords, MaxDateWords)}

InitDate ==
    /\ pc = "call"
    /\ arg \in DateArgs
    /\ ret = None
    /\ PipelineIdle

CallFindSmartDate ==
    /\ pc = "call"
    /\ arg.fn = "find_smart_date"
    /\ ret' = find_smart_date(arg.text)
    /\ pc' = "return"
    /\ UNCHANGED <<arg, pipeline>>

NextDate == CallFindSmartDate

SpecDate == InitDate /\ [][NextDate]_vars

\* the dates that the date-shaped substrings of the text parse to
ParsedDates(text) ==
    LET ms == findall_dates(text, 1)
    IN  {parse(ms[i])[1] : i \in {i \in 1..Len(ms) : parse(ms[i]) # None}}

\* C5: find_smart_date returns None when no date-shaped substring parses to a
\* year strictly between 2020 and 2035, and otherwise the latest of the parsed
\* dates whose year is strictly between 2020 and 2035.
C5_LatestInWindow ==
    (pc = "return" /\ arg.fn = "find_smart_date") =>
        LET ok == {dt \in ParsedDates(arg.text) : dt.year > 2020 /\ dt.year < 2035}
        IN  /\ (ret = None) <=> (ok = {})
            /\ ret # None =>
                 /\ ret[1] \in ok
                 /\ \A dt \in ok : DateKey(dt) <= DateKey(ret[1])

\* dates of 2020 and of 2035 stand beside a valid one, which is returned
C5_Witness ==
    /\ pc = "return" /\ arg.fn = "find_smart_date"
    /\ \E dt \in ParsedDates(arg.text) : dt.year = 2020
    /\ \E dt \in ParsedDates(arg.text) : dt.year = 2035
    /\ ret = Some([year |-> 2025, month |-> 12, day |-> 31])

-----------------------------------------------------------------------------
(* validate_compliance *)

\* length of the run of characters of class C that starts at i
RECURSIVE RunLength(_, _, _)
RunLength(s, i, C) ==
    IF i <= Len(s) /\ s[i] \in C THEN 1 + RunLength(s, i + 1, C) ELSE 0

Upper == {UpperCase[i] : i \in 1..26}

\* the leftmost index at which P holds, 0 for none
Leftmost(s, P(_)) ==
    IF \E i \in 1..Len(s) : P(i)
    THEN CHOOSE i \in 1..Len(s) : P(i) /\ \A j \in 1..(i - 1) : ~ P(j)
    ELSE 0

\* re.search(r'[A-Z]{2}-.*?-\d+', s): group(0), None for no match
search_document_id(s) ==
    LET \* the "-" before the digits for a match starting at i: the first one
        \* after the prefix with a digit behind it and no newline in between
        dash(i) == Leftmost(s, LAMBDA j : /\ j >= i + 3
                                          /\ s[j] = "-"
                                          /\ IsDigitAt(s, j + 1)
                                          /\ \A k \in (i + 3)..(j - 1) : s[k] # "\n")
        at(i) == /\ i + 2 <= Len(s)
                 /\ s[i] \in Upper /\ s[i + 1] \in Upper /\ s[i + 2] = "-"
                 /\ dash(i) # 0
        i0 == Leftmost(s, at)
    IN  IF i0 = 0 THEN None
        ELSE Some(SubSeq(s, i0, dash(i0) + RunLength(s, dash(i0) + 1, Digit)))

\* re.search(r'0\d{4,}', s)
search_zero_number(s) ==
    LET at(i) == s[i] = "0" /\ RunLength(s, i + 1, Digit) >= 4
        i0 == Leftmost(s, at)
    IN  IF i0 = 0 THEN None
        ELSE Some(SubSeq(s, i0, i0 + RunLength(s, i0 + 1, Digit)))

\* re.search(r'[A-Z]{2}-[A-Z]{3,}-\d{2,3}', s)
search_cb_code(s) ==
    LET letters(i) == RunLength(s, i + 3, Upper)
        digits(i) == RunLength(s, i + 4 + letters(i), Digit)
        at(i) == /\ i + 2 <= Len(s)
                 /\ s[i] \in Upper /\ s[i + 1] \in Upper /\ s[i + 2] = "-"
                 /\ letters(i) >= 3
                 /\ i + 3 + letters(i) <= Len(s) /\ s[i + 3 + letters(i)] = "-"
                 /\ digits(i) >= 2
        i0 == Leftmost(s, at)
    IN  IF i0 = 0 THEN None
        ELSE Some(SubSeq(s, i0, i0 + 3 + letters(i0)
                                   + (IF digits(i0) >= 3 THEN 3 ELSE 2)))

\* the digits of n, padded with zeros to the given width
RECURSIVE zero_padded(_, _)
zero_padded(n, width) ==
    IF width = 0 THEN <<>>
    ELSE zero_padded(n \div 10, width - 1)
         \o <<(<<"0", "1", "2", "3", "4", "5", "6", "7", "8", "9">>)[(n % 10) + 1]>>

\* dt.strftime('%Y-%m-%d')
strftime(dt) ==
    zero_padded(dt.year, 4) \o <<"-">> \o zero_padded(dt.month, 2) \o <<"-">> \o zero_padded(dt.day, 2)

\* One line of report["details"]: the mark it opens with (PASS for the check
\* mark, FAIL for the cross, WARN for the warning sign), its text and the value
\* formatted into it.
Detail(mark, label, value) == [mark |-> mark, label |-> label, value |-> value]

award(rep, label, value) ==
    [rep EXCEPT !.score = @ + 1, !.details = Append(@, Detail("PASS", label, value))]
withhold(rep, mark, label, value) ==
    [rep EXCEPT !.details = Append(@, Detail(mark, label, value))]

\* 1. Document Identification
check_document_id(rep, d) ==
    LET first == search_document_id(d.header)
        doc_num == IF first # None THEN first ELSE search_zero_number(d.header)
    IN  IF doc_num # None THEN award(rep, "(1) Document ID Found: ", doc_num[1])
        ELSE withhold(rep, "FAIL", "(1) Document ID Missing", <<>>)

check_operator_nonempty(rep, d) ==
    IF Len(d.operator) >= 0 THEN award(rep, "(2) Operator Details Detected", <<>>)
    ELSE withhold(rep, "FAIL", "(2) Operator Details Unclear", <<>>)

\* 2. Operator
check_operator(rep, d) ==
    IF Len(d.operator) > 10 THEN award(rep, "(2) Operator Details Detected", <<>>)
    ELSE withhold(rep, "FAIL", "(2) Operator Details Unclear", <<>>)

check_authority_no_point(rep, d) ==
    LET zone == search_cb_code(d.authority)
        cb_code == IF zone # None THEN zone ELSE search_cb_code(d.full_text)
    IN  IF cb_code # None THEN withhold(rep, "PASS", "(2) Control Body Code: ", cb_code[1])
        ELSE withhold(rep, "WARN", "(2) Control Body Code not explicitly found", <<>>)

\* 3. Authority
check_authority(rep, d) ==
    LET zone == search_cb_code(d.authority)
        cb_code == IF zone # None THEN zone ELSE search_cb_code(d.full_text)
    IN  IF cb_code # None THEN award(rep, "(2) Control Body Code: ", cb_code[1])
        ELSE withhold(rep, "WARN", "(2) Control Body Code not explicitly found", <<>>)

\* 4. Activities
check_activities(rep, d) ==
    IF contains(lower(d.full_text), <<"a","c","t","i","v","i","t","y">>)
    THEN award(rep, "(3) Activities Section Found", <<>>)
    ELSE withhold(rep, "WARN", "(3) Activities Section Missing", <<>>)

\* 5. Products; the value is len(active_prods)
check_products(rep, active_prods) ==
    IF Len(active_prods) > 0 THEN award(rep, "(4) Active Products: items", Len(active_prods))
    ELSE withhold(rep, "FAIL", "(4) No Active Products Detected", <<>>)

\* 7. Legal
check_legal(rep, d) ==
    IF contains(d.full_text, <<"2","0","1","8","/","8","4","8">>) \/ contains(d.full_text, <<"2","0","2","1","/","1","3","7","8">>)
    THEN award(rep, "(7) EU Regulation Cited", <<>>)
    ELSE withhold(rep, "FAIL", "(7) Missing Legal Reference", <<>>)

\* 8. Seal
check_seal(rep, d) ==
    IF \/ contains(lower(d.full_text), <<"e","l","e","c","t","r","o","n","i","c","a","l","l","y"," ","s","i","g","n","e","d">>)
       \/ contains(lower(d.full_text), <<"t","r","a","c","e","s">>)
    THEN award(rep, "(8) Electronic/TRACES Seal", <<>>)
    ELSE withhold(rep, "WARN", "(8) Seal/Signature Not Detected", <<>>)

\* 9. Validity; clock is datetime.now(), of which only the day matters since
\* expiry is a midnight
check_validity(rep, d, clock) ==
    LET expiry == find_smart_date(d.full_text)
    IN  IF expiry # None
        THEN IF DateKey(expiry[1]) > DateKey(clock)
             THEN award(rep, "(9) Valid Until: ", strftime(expiry[1]))
             ELSE withhold(rep, "FAIL", "(9) EXPIRED: ", strftime(expiry[1]))
        ELSE withhold(rep, "FAIL", "(9) Validity Date Not Found", <<>>)

\* validate_compliance with the report dictionary kept from the run before
validate_compliance_kept_report(d, clock) ==
    LET r0 == IF report = None THEN [score |-> 0, total |-> 8, details |-> <<>>]
              ELSE report[1].report
        r1 == check_document_id(r0, d)
        r2 == check_operator(r1, d)
        r3 == check_authority(r2, d)
        r4 == check_activities(r3, d)
        active_prods == parse_checkbox_products(d.products)
        r5 == check_products(r4, active_prods)
        r6 == check_legal(r5, d)
        r7 == check_seal(r6, d)
        r8 == check_validity(r7, d, clock)
    IN  [report |-> r8, products |-> active_prods]

\* returns (report, active_prods)
validate_compliance(d, clock) ==
    LET r0 == [score |-> 0, total |-> 8, details |-> <<>>]
        r1 == check_document_id(r0, d)
        r2 == check_operator(r1, d)
        r3 == check_authority(r2, d)
        r4 == check_activities(r3, d)
        active_prods == parse_checkbox_products(d.products)
        r5 == check_products(r4, active_prods)
        r6 == check_legal(r5, d)
        r7 == check_seal(r6, d)
        r8 == check_validity(r7, d, clock)
    IN  [report |-> r8, products |-> active_prods]

PASS_MARK == 7

\* the banner the page shows for a report
verdict(rep) == IF rep.score >= PASS_MARK THEN "PASSING SCORE" ELSE "FAILING SCORE"

-----------------------------------------------------------------------------
(* Inputs of the validate_compliance calls *)

Headers == {<<>>, <<"D","o","c","u","m","e","n","t"," ","N","o","."," ","0","8","1","2","3","4","5"," ","E","U","-","B","I","O","-","1","2","3">>, <<"C","e","r","t","i","f","i","c","a","t","e">>}
Operators == {<<>>, <<"G","r","e","e","n"," ","F","a","r","m">>, <<"G","r","e","e","n"," ","F","a","r","m","s">>}
Authorities == {<<>>, <<"D","E","-","B","I","O","-","0","0","7">>}
ProductTexts == {<<>>, ExampleProducts, <<"O"," ","O","r","g","a","n","i","c"," ","p","e","a","r","s","\n">>}
FullTexts ==
    {a \o b \o c \o d \o e :
        a \in {<<>>, <<"1",".","5"," ","A","c","t","i","v","i","t","y"," ","o","f"," ","t","h","e"," ","o","p","e","r","a","t","o","r","\n">>},
        b \in {<<>>, <<"R","e","g","u","l","a","t","i","o","n"," ","(","E","U",")"," ","2","0","1","8","/","8","4","8","\n">>},
        c \in {<<>>, <<"I","s","s","u","e","d"," ","v","i","a"," ","T","R","A","C","E","S","\n">>},
        d \in {<<>>, <<"V","a","l","i","d"," ","u","n","t","i","l"," ","3","1",".","1","2",".","2","0","2","7","\n">>, <<"V","a","l","i","d"," ","u","n","t","i","l"," ","3","1",".","1","2",".","2","0","2","1","\n">>},
        e \in {<<>>, <<"I","T","-","B","I","O","-","0","0","9","\n">>}}

\* the days at which the clock is read
START_YEAR == 2026
TickYears == 2
MaxTicks == 1
Clock(ticks) == [year |-> START_YEAR + TickYears * ticks, month |-> 11, day |-> 1]
Clocks == {Clock(t) : t \in 0..MaxTicks}

ScoreArgs ==
    {[fn |-> "validate_compliance",
      data |-> [full_text |-> f, header |-> h, operator |-> o, authority |-> a, products |-> p],
      clock |-> c] :
        f \in FullTexts, h \in Headers, o \in Operators, a \in Authorities,
        p \in ProductTexts, c \in Clocks}

InitScore ==
    /\ pc = "call"
    /\ arg \in ScoreArgs
    /\ ret = None
    /\ PipelineIdle

\* report, products = validate_compliance(data) and the banner
CallValidateCompliance ==
    /\ pc = "call"
    /\ arg.fn = "validate_compliance"
    /\ LET r == validate_compliance(arg.data, arg.clock)
       IN  ret' = [report |-> r.report, products |-> r.products, banner |-> verdict(r.report)]
    /\ pc' = "return"
    /\ UNCHANGED <<arg, pipeline>>

NextScore == CallValidateCompliance

SpecScore == InitScore /\ [][NextScore]_vars

\* The eight conditions of the rubric on a record d at day clock.
RubricSatisfied(d, clock) ==
    /\ search_document_id(d.header) # None \/ search_zero_number(d.header) # None
    /\ Len(d.operator) > 10
    /\ search_cb_code(d.authority) # None \/ search_cb_code(d.full_text) # None
    /\ contains(lower(d.full_text), <<"a","c","t","i","v","i","t","y">>)
    /\ parse_checkbox_products(d.products) # <<>>
    /\ contains(d.full_text, <<"2","0","1","8","/","8","4","8">>) \/ contains(d.full_text, <<"2","0","2","1","/","1","3","7","8">>)
    /\ \/ contains(lower(d.full_text), <<"e","l","e","c","t","r","o","n","i","c","a","l","l","y"," ","s","i","g","n","e","d">>)
       \/ contains(lower(d.full_text), <<"t","r","a","c","e","s">>)
    /\ find_smart_date(d.full_text) # None
    /\ DateKey(find_smart_date(d.full_text)[1]) > DateKey(clock)

\* the texts a check can report, in the order of the rubric
CheckLabels ==
    <<{"(1) Document ID Found: ", "(1) Document ID Missing"},
      {"(2) Operator Details Detected", "(2) Operator Details Unclear"},
      {"(2) Control Body Code: ", "(2) Control Body Code not explicitly found"},
      {"(3) Activities Section Found", "(3) Activities Section Missing"},
      {"(4) Active Products: items", "(4) No Active Products Detected"},
      {"(7) EU Regulation Cited", "(7) Missing Legal Reference"},
      {"(8) Electronic/TRACES Seal", "(8) Seal/Signature Not Detected"},
      {"(9) Valid Until: ", "(9) EXPIRED: ", "(9) Validity Date Not Found"}>>

OnePerCheck(details) ==
    /\ Len(details) = Len(CheckLabels)
    /\ \A i \in 1..Len(CheckLabels) : details[i].label \in CheckLabels[i]

EmptyFields == [full_text |-> <<>>, header |-> <<>>, operator |-> <<>>,
                authority |-> <<>>, products |-> <<>>]

\* C2: a record that satisfies all 8 conditions of the rubric scores 8 of 8 and
\* passes; the record of five empty strings scores 0 with one failed or warned
\* entry per check.
C2_FullAndEmptyRecord ==
    (pc = "return" /\ arg.fn = "validate_compliance") =>
        /\ RubricSatisfied(arg.data, arg.clock) =>
              /\ ret.report.score = 8
              /\ ret.report.total = 8
              /\ ret.banner = "PASSING SCORE"
        /\ arg.data = EmptyFields =>
              /\ ret.report.score = 0
              /\ OnePerCheck(ret.report.details)
              /\ \A i \in 1..8 : ret.report.details[i].mark \in {"FAIL", "WARN"}

C2_WitnessFull ==
    /\ pc = "return" /\ arg.fn = "validate_compliance"
    /\ RubricSatisfied(arg.data, arg.clock)
    /\ ret.report.score = 8

C2_WitnessEmpty ==
    /\ pc = "return" /\ arg.fn = "validate_compliance"
    /\ arg.data = EmptyFields
    /\ ret.report.score = 0

\* C8: every check awards at most one point: 0 <= score <= total = 8, the
\* details hold one entry per check in the order of the rubric, the score is
\* the number of passed entries, and the banner is the passing one iff
\* score >= 7.
C8_ScoreCountsPasses ==
    (pc = "return" /\ arg.fn = "validate_compliance") =>
        LET rep == ret.report
        IN  /\ rep.total = 8
            /\ rep.score \in 0..rep.total
            /\ OnePerCheck(rep.details)
            /\ rep.score = Cardinality({i \in 1..Len(rep.details) : rep.details[i].mark = "PASS"})
            /\ (ret.banner = "PASSING SCORE") <=> (rep.score >= 7)

\* a record one point short of the pass mark, and one exactly at it
C8_Witness ==
    /\ pc = "return" /\ arg.fn = "validate_compliance"
    /\ ret.report.score = 7
    /\ ret.banner = "PASSING SCORE"

-----------------------------------------------------------------------------
(* surgical_crop and extract_full_data_spatial *)

FLOOR_HEIGHT == 500
COLUMN_OFFSET == 50

Min(a, b) == IF a <= b THEN a ELSE b

\* surgical_crop(img, y_start, y_end, split_vertical, side) for the integer
\* y_start and y_end its callers pass.  answer is what the recognition engine
\* does on the cropped zone: <<text>>, or None when it raises.  The result is
\* the box handed to img.crop and the text returned.  A box of no height or
\* width gives no image to recognise: crop or the engine raises, and the except
\* clause returns "".
surgical_crop(img, y_start, y_end, split_vertical, side, answer) ==
    LET w == img.w
        h == img.h
        bottom == IF y_end <= y_start THEN Min(y_start + FLOOR_HEIGHT, h) ELSE y_end
        x_start == IF split_vertical /\ side # "left" THEN w \div 2 ELSE 0
        x_end == IF split_vertical /\ side = "left" THEN w \div 2 ELSE w
        box == [x0 |-> x_start, y0 |-> y_start, x1 |-> x_end, y1 |-> bottom]
    IN  [box |-> box,
         text |-> IF answer = None \/ bottom <= y_start \/ x_end <= x_start
                  THEN <<>> ELSE answer[1]]

\* a or b, on an optional integer a
or_default(a, b) == IF a # None /\ a[1] # 0 THEN a[1] ELSE b

\* the size of img: a PDF page as rasterised, an image doubled when narrower
\* than 2000
page_image(file) ==
    IF file.type # "application/pdf" /\ file.width < 2000
    THEN [w |-> file.width * 2, h |-> file.height * 2]
    ELSE [w |-> file.width, h |-> file.height]

\* len(images) of convert_from_bytes(..., first_page=1, last_page=2)
images_len(file) == Min(file.pages, 2)

NoCrops == [z \in {"header", "operator", "authority", "products"} |-> None]

\* extract_full_data_spatial(file): the returned dictionary (None after the
\* outer except clause), the anchors and the boxes cropped on the way
extract_full_data_spatial(file) ==
    IF ~ file.decodable \/ file.engine.page = None
    THEN [data |-> None, anchors |-> None, crops |-> NoCrops]
    ELSE
    LET img == page_image(file)
        ocr_data == file.engine.page[1].ocr_data
        full_text == file.engine.page[1].full_text
        h == img.h
        y_box_3 == or_default(find_anchor_y(ocr_data, KW_BOX_3), (h * 15) \div 100)
        y_box_5 == or_default(find_anchor_y(ocr_data, KW_BOX_5), (h * 50) \div 100)
        y_box_6 == or_default(find_anchor_y(ocr_data, KW_BOX_6), (h * 60) \div 100)
        y_footer == (h * 95) \div 100
        header == surgical_crop(img, 0, y_box_3, FALSE, "left", file.engine.header)
        y_cols_start == y_box_3 + COLUMN_OFFSET
        operator == surgical_crop(img, y_cols_start, y_box_5, TRUE, "left", file.engine.operator)
        authority == surgical_crop(img, y_cols_start, y_box_5, TRUE, "right", file.engine.authority)
        second_page == file.type = "application/pdf" /\ images_len(file) > 1
        products == surgical_crop(img, y_box_6, y_footer, FALSE, "left", file.engine.products)
        found == [y_box_3 |-> y_box_3, y_box_5 |-> y_box_5, y_box_6 |-> y_box_6]
        cropped == [z \in {"header", "operator", "authority", "products"} |->
                      CASE z = "header" -> Some(header.box)
                        [] z = "operator" -> Some(operator.box)
                        [] z = "authority" -> Some(authority.box)
                        [] z = "products" -> IF second_page THEN None ELSE Some(products.box)]
    IN  IF second_page /\ file.engine.products = None
        THEN \* image_to_string(prod_img) raises into the outer except clause
             [data |-> None, anchors |-> Some(found), crops |-> cropped]
        ELSE [data |-> Some([full_text |-> full_text,
                             header |-> header.text,
                             operator |-> operator.text,
                             authority |-> authority.text,
                             products |-> IF second_page THEN file.engine.products[1]
                                          ELSE products.text]),
              anchors |-> Some(found),
              crops |-> cropped]

-----------------------------------------------------------------------------
(* The uploads and the script run on them *)

MaxScanBoxes == 1
MaxPdfPages == 2

Zones == {"header", "operator", "authority", "products"}
Calls == {"page"} \cup Zones

\* what is printed on the certificate, zone by zone
Certificate ==
    [page |-> <<"1",".","5"," ","A","c","t","i","v","i","t","y"," ","o","f"," ","t","h","e"," ","o","p","e","r","a","t","o","r","\n","R","e","g","u","l","a","t","i","o","n"," ","(","E","U",")"," ","2","0","1","8","/","8","4","8","\n","I","s","s","u","e","d"," ","v","i","a"," ","T","R","A","C","E","S","\n","V","a","l","i","d"," ","u","n","t","i","l"," ","3","1",".","1","2",".","2","0","2","7","\n">>,
     header |-> <<"D","o","c","u","m","e","n","t"," ","N","o","."," ","0","8","1","2","3","4","5","\n">>,
     operator |-> <<"G","r","e","e","n"," ","F","a","r","m"," ","G","m","b","H","\n","B","e","r","l","i","n","\n">>,
     authority |-> <<"D","E","-","B","I","O","-","0","0","7","\n">>,
     products |-> ExampleProducts]

PageSizes == {[width |-> 1000, height |-> 300], [width |-> 2480, height |-> 3508]}

ScanTexts == {<<"1",".","3"," ","O","p","e","r","a","t","o","r">>, <<"1",".","5"," ","A","c","t","i","v","i","t","y">>, <<"1",".","6"," ","C","a","t","e","g","o","r","y">>}
ScanConf == 96
ScanTops(h) == {0, (h - 1) \div 2, h - 1}

\* the engine's answers on a document: to image_to_data and image_to_string
\* of page 1, and to the recognition of each zone (for products: of the crop,
\* or of page 2 when the PDF has one); None where the engine raises
Engine(lines, failing) ==
    [c \in Calls |->
        IF c \in failing THEN None
        ELSE IF c = "page"
             THEN Some([ocr_data |-> OcrDict(lines), full_text |-> Certificate.page])
             ELSE Some(Certificate[c])]

\* no engine failure, or a failure of one call
EngineFailures == {{}} \cup {{c} : c \in Calls}

Undecodable(type) ==
    [type |-> type, decodable |-> FALSE, pages |-> 1, width |-> 1000, height |-> 300,
     engine |-> Engine(<<>>, {})]

Uploads ==
    {Undecodable(t) : t \in {"application/pdf", "image/png"}}
    \cup
    UNION {
        {[type |-> tp[1], decodable |-> TRUE, pages |-> tp[2],
          width |-> size.width, height |-> size.height,
          engine |-> Engine(lines, failing)] :
            lines \in SeqUpTo([text : ScanTexts, conf : {ScanConf},
                               top : ScanTops(page_image([type |-> tp[1], width |-> size.width,
                                                          height |-> size.height]).h)],
                              MaxScanBoxes),
            failing \in EngineFailures} :
        tp \in {<<"image/png", 1>>} \cup {<<"application/pdf", n>> : n \in 1..MaxPdfPages},
        size \in PageSizes}

FunctionIdle == arg = None /\ ret = None

Init ==
    /\ pc = "uploaded"
    /\ uploaded_file \in Uploads
    /\ now = Clock(0)
    /\ anchors = None
    /\ crops = NoCrops
    /\ data = None
    /\ report = None
    /\ last = None
    /\ FunctionIdle

\* data = extract_full_data_spatial(uploaded_file)
Extract ==
    /\ pc = "uploaded"
    /\ LET r == extract_full_data_spatial(uploaded_file)
       IN  /\ data' = r.data
           /\ anchors' = r.anchors
           /\ crops' = r.crops
    /\ pc' = "extracted"
    /\ UNCHANGED <<arg, ret, uploaded_file, now, report, last>>

\* if data: the report is computed and rendered
Validate ==
    /\ pc = "extracted"
    /\ data # None
    /\ LET r == validate_compliance(data[1], now)
       IN  report' = Some([report |-> r.report, products |-> r.products,
                           banner |-> verdict(r.report), clock |-> now])
    /\ pc' = "rendered"
    /\ UNCHANGED <<arg, ret, uploaded_file, now, anchors, crops, data, last>>

\* data is None: st.error has shown the extraction error, nothing is rendered
ExtractionError ==
    /\ pc = "extracted"
    /\ data = None
    /\ report' = None
    /\ pc' = "failed"
    /\ UNCHANGED <<arg, ret, uploaded_file, now, anchors, crops, data, last>>

\* time passes between two runs
Tick ==
    /\ pc \in {"rendered", "failed"}
    /\ now.year < START_YEAR + TickYears * MaxTicks
    /\ now' = [now EXCEPT !.year = @ + TickYears]
    /\ UNCHANGED <<pc, arg, ret, uploaded_file, anchors, crops, data, report, last>>

\* the script runs again on the same upload; the page shows the old report
\* until the new one replaces it
Rerun ==
    /\ pc \in {"rendered", "failed"}
    /\ last' = report
    /\ pc' = "uploaded"
    /\ anchors' = None
    /\ crops' = NoCrops
    /\ data' = None
    /\ UNCHANGED <<arg, ret, uploaded_file, now, report>>

Next == Extract \/ Validate \/ ExtractionError \/ Tick \/ Rerun

Spec == Init /\ [][Next]_vars

\* C1: every box that surgical_crop cuts for extract_full_data_spatial has
\* y1 > y0 and x1 > x0, and where the bottom anchor is <= the top anchor the
\* bottom is min(top + 500, h).
C1_BoxesHaveArea ==
    pc = "extracted" =>
        /\ \A z \in Zones : crops[z] # None =>
              /\ crops[z][1].y1 > crops[z][1].y0
              /\ crops[z][1].x1 > crops[z][1].x0
        /\ anchors # None =>
              LET h == page_image(uploaded_file).h
                  top == anchors[1].y_box_3 + 50
              IN  /\ anchors[1].y_box_3 <= 0 => crops["header"][1].y1 = Min(500, h)
                  /\ anchors[1].y_box_5 <= top =>
                        /\ crops["operator"][1].y1 = Min(top + 500, h)
                        /\ crops["authority"][1].y1 = Min(top + 500, h)
                  /\ (crops["products"] # None /\ (h * 95) \div 100 <= anchors[1].y_box_6) =>
                        crops["products"][1].y1 = Min(anchors[1].y_box_6 + 500, h)

\* C3: once the page has been decoded and read, an engine failure on a zone
\* leaves that zone's text empty and the record complete.
C3_ZoneFailureContained ==
    (pc = "extracted" /\ uploaded_file.decodable /\ uploaded_file.engine.page # None) =>
        /\ data # None
        /\ \A z \in Zones : uploaded_file.engine[z] = None => data[1][z] = <<>>
        /\ \A z \in Zones :
              (uploaded_file.engine[z] # None /\ crops[z] # None /\ crops[z][1].y1 > crops[z][1].y0)
                  => data[1][z] = uploaded_file.engine[z][1]

\* C9: each anchor is the top of the line find_anchor_y resolves, and the
\* proportional default exactly when find_anchor_y returns None.
C9_DefaultOnlyWhenAbsent ==
    (pc = "extracted" /\ anchors # None) =>
        LET d == uploaded_file.engine.page[1].ocr_data
            h == page_image(uploaded_file).h
            Uses(y, kws, percent) ==
                LET found == find_anchor_y(d, kws)
                IN  y = IF found # None THEN found[1] ELSE (h * percent) \div 100
        IN  /\ Uses(anchors[1].y_box_3, KW_BOX_3, 15)
            /\ Uses(anchors[1].y_box_5, KW_BOX_5, 50)
            /\ Uses(anchors[1].y_box_6, KW_BOX_6, 60)

\* C6 (as stated): two runs on the same upload with the same engine give the
\* same report whenever each is evaluated.
C6_SameReportAnyTime ==
    (pc = "rendered" /\ last # None) =>
        /\ report[1].report = last[1].report
        /\ report[1].products = last[1].products

\* C6 (amended): two runs evaluated on the same day give the same report and
\* products; runs on different days give the same products and the same first
\* seven entries.
C6_SameReportSameDay ==
    (pc = "rendered" /\ last # None) =>
        /\ report[1].products = last[1].products
        /\ SubSeq(report[1].report.details, 1, 7) = SubSeq(last[1].report.details, 1, 7)
        /\ report[1].clock = last[1].clock => report[1].report = last[1].report

\* a second run on the same day has rendered its report
C6_Witness ==
    /\ pc = "rendered" /\ last # None
    /\ report[1].clock = last[1].clock
    /\ report[1].report.score = 8
    /\ report[1].report = last[1].report

=============================================================================
